---- MODULE Spec2Model ----
(***************************************************************************)
(* Model of the change-detection engine of aider_wrapper.py: two           *)
(* `git status --porcelain` snapshots are taken around the coder run, the  *)
(* stripped status lines are differenced as sets, and the two loops of     *)
(* main() build the file_changes list.                                     *)
(*                                                                         *)
(* Strings are sequences of one-character strings, so that strip(),        *)
(* split(), startswith() and the quote / rename handling are computed the  *)
(* way the Python code computes them.                                      *)
(***************************************************************************)
EXTENDS Integers, Sequences, FiniteSets, TLC

VARIABLES pc, initial_status_output, final_status_output, fs,
          changed_or_new_lines, deleted_lines, appeared_iter, deleted_iter,
          file_changes, appeared_count

vars == <<pc, initial_status_output, final_status_output, fs,
          changed_or_new_lines, deleted_lines, appeared_iter, deleted_iter,
          file_changes, appeared_count>>

(* ---------------------------------------------------------------------- *)
(* Bounds and input alphabets                                              *)
(* ---------------------------------------------------------------------- *)

\* largest number of lines in one status output
MaxLines == 2

\* file names of the working tree: "a" and "b c"
Paths == { <<"a">>, <<"b", " ", "c">> }

\* the rename marker of a porcelain status line
Arrow == <<" ", "-", ">", " ">>

\* two-character XY codes of ordinary (one path) status lines
PlainCodes == { <<"?", "?">>, <<"M", " ">>, <<" ", "M">>, <<"A", " ">>,
                <<"A", "M">>, <<"D", " ">>, <<" ", "D">> }

\* XY code of a rename line "R  old -> new"
RenameCode == <<"R", " ">>

Null == <<>>

(* ---------------------------------------------------------------------- *)
(* Python string primitives                                                *)
(* ---------------------------------------------------------------------- *)

RECURSIVE LStrip(_)
LStrip(s) == IF s = <<>> THEN s
             ELSE IF Head(s) = " " THEN LStrip(Tail(s)) ELSE s

RECURSIVE RStrip(_)
RStrip(s) == IF s = <<>> THEN s
             ELSE IF s[Len(s)] = " " THEN RStrip(SubSeq(s, 1, Len(s) - 1)) ELSE s

\* str.strip()
Strip(s) == RStrip(LStrip(s))

\* str.startswith(prefix)
StartsWith(s, prefix) ==
    /\ Len(s) >= Len(prefix)
    /\ SubSeq(s, 1, Len(prefix)) = prefix

\* str.endswith(suffix)
EndsWith(s, suffix) ==
    /\ Len(s) >= Len(suffix)
    /\ SubSeq(s, Len(s) - Len(suffix) + 1, Len(s)) = suffix

\* positions at which sub occurs in s
Occurrences(s, sub) ==
    { i \in 1..(Len(s) - Len(sub) + 1) : SubSeq(s, i, i + Len(sub) - 1) = sub }

\* sub in s
Contains(s, sub) == Occurrences(s, sub) # {}

Min(S) == CHOOSE x \in S : \A y \in S : x <= y

\* str.split(sep): the list of pieces between occurrences of sep
RECURSIVE SplitOn(_, _)
SplitOn(s, sep) ==
    IF ~Contains(s, sep) THEN <<s>>
    ELSE LET i == Min(Occurrences(s, sep))
         IN <<SubSeq(s, 1, i - 1)>> \o SplitOn(SubSeq(s, i + Len(sep), Len(s)), sep)

\* length of the leading run of non-blank characters
RECURSIVE TokenLen(_)
TokenLen(s) == IF s = <<>> \/ Head(s) = " " THEN 0 ELSE 1 + TokenLen(Tail(s))

\* str.split(maxsplit=1): first whitespace-delimited token, then the rest
SplitMax1(s) ==
    LET t == LStrip(s)
        n == TokenLen(t)
        rest == LStrip(SubSeq(t, n + 1, Len(t)))
    IN IF t = <<>> THEN <<>>
       ELSE IF rest = <<>> THEN <<SubSeq(t, 1, n)>>
       ELSE <<SubSeq(t, 1, n), rest>>

(* ---------------------------------------------------------------------- *)
(* Status snapshots                                                        *)
(* ---------------------------------------------------------------------- *)

\* a path as the status prints it: in double quotes when it holds a blank
Display(p) == IF Contains(p, <<" ">>) THEN <<"\"">> \o p \o <<"\"">> ELSE p

PlainEntries == { [code |-> c, path |-> Display(p)] : c \in PlainCodes, p \in Paths }

RenamePath(old, new) == Display(old) \o Arrow \o Display(new)

RenameEntries ==
    { [code |-> RenameCode, path |-> RenamePath(o, n)] :
        <<o, n>> \in { pr \in Paths \X Paths : pr[1] # pr[2] } }

StatusEntries == PlainEntries \cup RenameEntries

IsRename(e) == e.code = RenameCode

\* the file a printed path stands for
Named(shown) == CHOOSE p \in Paths : Display(p) = shown

\* the file an entry is listed under (the new path of a rename)
Target(e) == IF IsRename(e) THEN Named(SplitOn(e.path, Arrow)[2]) ELSE Named(e.path)

\* the old file of a rename entry
Source(e) == Named(SplitOn(e.path, Arrow)[1])

\* what `git status --porcelain` can print: one line per path, and the old
\* path of a rename is no longer tracked (it is not listed, or is untracked)
IsStatusOutput(S) ==
    /\ Cardinality(S) <= MaxLines
    /\ \A e1, e2 \in S : Target(e1) = Target(e2) => e1 = e2
    /\ \A r \in S : IsRename(r) =>
          \A e \in S : /\ (Target(e) = Source(r) => e.code = <<"?", "?">>)
                       /\ (IsRename(e) /\ Source(e) = Source(r) => e = r)

StatusOutputs == { S \in SUBSET StatusEntries : IsStatusOutput(S) }

\* one line "XY path" of the porcelain output
StatusLine(e) == e.code \o <<" ">> \o e.path

\* variant: whitespace runs inside a line are collapsed as well
StrippedLinesCollapsed(S) ==
    { LET parts == SplitMax1(StatusLine(e))
      IN IF Len(parts) < 2 THEN Strip(StatusLine(e))
         ELSE parts[1] \o <<" ">> \o Strip(parts[2]) : e \in S }

\* set(line.strip() for line in output.splitlines())
StrippedLines(S) == { Strip(StatusLine(e)) : e \in S }

\* variant: every final line counts as changed or new
ChangedOrNewAll(initial_lines, final_lines) == final_lines

\* changed_or_new_lines = final_lines - initial_lines
ChangedOrNew(initial_lines, final_lines) == final_lines \ initial_lines

\* deleted_lines = initial_lines - final_lines
Deleted(initial_lines, final_lines) == initial_lines \ final_lines

(* ---------------------------------------------------------------------- *)
(* File system and resolver                                                *)
(* ---------------------------------------------------------------------- *)

FileStates == {"absent", "readable", "unreadable"}

\* os.path.exists(full_path)
Exists(filepath) == filepath \in DOMAIN fs /\ fs[filepath] # "absent"

\* f.read()
FileText(filepath) == <<"text", filepath>>

\* f"Error reading file: {read_err}"
ReadError(read_err) == <<"Error reading file: ", read_err>>

\* the text repo.git.diff(ref, '--', filepath) returns
DiffText(ref, filepath) == <<"diff", ref, filepath>>

\* outcomes of one repo.git.diff call
DiffOutcomes == {"ok", "GitCommandError", "Exception"}

Record(filename, change_type, content, diff) ==
    [type |-> "file_change", filename |-> filename, change_type |-> change_type,
     content |-> content, diff |-> diff]

\* path normalisation shared by both loops; piece is the index of the
\* part of a rename path that is kept
ParsePath(raw, piece) ==
    LET p1 == Strip(raw)
        p2 == IF StartsWith(p1, <<"\"">>) /\ EndsWith(p1, <<"\"">>)
              THEN SubSeq(p1, 2, Len(p1) - 1) ELSE p1
    IN IF Contains(p2, Arrow) THEN SplitOn(p2, Arrow)[piece] ELSE p2

\* variant: a diff against HEAD is taken for an added file as well
ResolveAddedWithDiff(filepath) ==
    IF Exists(filepath)
    THEN IF fs[filepath] = "readable"
         THEN Record(filepath, "added", FileText(filepath), DiffText("HEAD", filepath))
         ELSE Record(filepath, "added", ReadError("open"), Null)
    ELSE Record(filepath, "added", Null, Null)

\* the "??" branch
ResolveAdded(filepath) ==
    IF Exists(filepath)
    THEN IF fs[filepath] = "readable"
         THEN Record(filepath, "added", FileText(filepath), Null)
         ELSE Record(filepath, "added", ReadError("open"), Null)
    ELSE Record(filepath, "added", Null, Null)

\* the "M" / "A" branch with its nested try/except
ResolveModified(filepath, head, staged) ==
    IF ~Exists(filepath) THEN Record(filepath, "modified", Null, Null)
    ELSE IF fs[filepath] # "readable"
         THEN Record(filepath, "modified", ReadError("open"), Null)
    ELSE IF head = "ok"
         THEN Record(filepath, "modified", FileText(filepath), DiffText("HEAD", filepath))
    ELSE IF head = "Exception"
         THEN Record(filepath, "modified", FileText(filepath), Null)
    ELSE IF staged = "ok"
         THEN Record(filepath, "modified", FileText(filepath), DiffText("--staged", filepath))
    ELSE IF staged = "GitCommandError"
         THEN Record(filepath, "modified", FileText(filepath), Null)
    ELSE Record(filepath, "modified", ReadError("diff"), Null)

\* status-code classification of an appeared line
ClassifyAppeared(status_code) ==
    IF status_code = <<"?", "?">> THEN "added"
    ELSE IF StartsWith(status_code, <<"M">>) \/ StartsWith(status_code, <<"A">>)
         THEN "modified"
    ELSE IF StartsWith(status_code, <<"D">>) THEN "deleted"
    ELSE "unknown"

\* the records one iteration of the appeared loop appends
AppearedRecords(line, head, staged) ==
    LET parts == SplitMax1(line)
    IN IF Len(parts) < 2 THEN <<>>
       ELSE LET status_code == parts[1]
                filepath == ParsePath(parts[2], 2)
                change_type == ClassifyAppeared(status_code)
            IN CASE change_type = "added" -> <<ResolveAdded(filepath)>>
                 [] change_type = "modified" -> <<ResolveModified(filepath, head, staged)>>
                 [] change_type = "deleted" -> <<Record(filepath, "deleted", Null, Null)>>
                 [] OTHER -> <<>>

\* variant: the comparison of change_type is inverted
IsInChangedInverted(changes, filepath) ==
    \E i \in 1..Len(changes) :
        changes[i].filename = filepath /\ changes[i].change_type = "deleted"

\* any(fc['filename'] == filepath and fc['change_type'] != 'deleted' ...)
IsInChanged(changes, filepath) ==
    \E i \in 1..Len(changes) :
        changes[i].filename = filepath /\ changes[i].change_type # "deleted"

\* variant: the is_in_changed test is left out
DeletedRecordsNoDedup(line, changes) ==
    IF StartsWith(line, <<"?", "?">>) THEN <<>>
    ELSE LET parts == SplitMax1(line)
         IN IF Len(parts) < 2 THEN <<>>
            ELSE LET filepath == ParsePath(parts[2], 1)
                 IN IF ~Exists(filepath)
                    THEN <<Record(filepath, "deleted", Null, Null)>>
                    ELSE <<>>

\* variant: the os.path.exists test is inverted
DeletedRecordsInvertedExists(line, changes) ==
    IF StartsWith(line, <<"?", "?">>) THEN <<>>
    ELSE LET parts == SplitMax1(line)
         IN IF Len(parts) < 2 THEN <<>>
            ELSE LET filepath == ParsePath(parts[2], 1)
                 IN IF Exists(filepath) /\ ~IsInChanged(changes, filepath)
                    THEN <<Record(filepath, "deleted", Null, Null)>>
                    ELSE <<>>

\* variant: the record is appended with the change_type of the loop above
DeletedRecordsAsModified(line, changes) ==
    IF StartsWith(line, <<"?", "?">>) THEN <<>>
    ELSE LET parts == SplitMax1(line)
         IN IF Len(parts) < 2 THEN <<>>
            ELSE LET filepath == ParsePath(parts[2], 1)
                 IN IF ~Exists(filepath) /\ ~IsInChanged(changes, filepath)
                    THEN <<Record(filepath, "modified", Null, Null)>>
                    ELSE <<>>

\* the records one iteration of the deleted loop appends
DeletedRecords(line, changes) ==
    IF StartsWith(line, <<"?", "?">>) THEN <<>>
    ELSE LET parts == SplitMax1(line)
         IN IF Len(parts) < 2 THEN <<>>
            ELSE LET filepath == ParsePath(parts[2], 1)
                 IN IF ~Exists(filepath) /\ ~IsInChanged(changes, filepath)
                    THEN <<Record(filepath, "deleted", Null, Null)>>
                    ELSE <<>>

(* ---------------------------------------------------------------------- *)
(* The run                                                                 *)
(* ---------------------------------------------------------------------- *)

Init ==
    /\ pc = "coder"
    /\ initial_status_output \in StatusOutputs
    /\ final_status_output = {}
    /\ fs = [p \in Paths |-> "absent"]
    /\ changed_or_new_lines = {}
    /\ deleted_lines = {}
    /\ appeared_iter = {}
    /\ deleted_iter = {}
    /\ file_changes = <<>>
    /\ appeared_count = 0

\* coder.run(): the agent changes the working tree; the status taken
\* afterwards and the files on disk are whatever it left behind
CoderRun ==
    /\ pc = "coder"
    /\ \E S \in StatusOutputs : final_status_output' = S
    /\ \E f \in [Paths -> FileStates] : fs' = f
    /\ pc' = "status"
    /\ UNCHANGED <<initial_status_output, changed_or_new_lines, deleted_lines,
                   appeared_iter, deleted_iter, file_changes, appeared_count>>

\* the set differences of the stripped status lines
DiffStatus ==
    /\ pc = "status"
    /\ LET initial_lines == StrippedLines(initial_status_output)
           final_lines == StrippedLines(final_status_output)
       IN /\ changed_or_new_lines' = ChangedOrNew(initial_lines, final_lines)
          /\ deleted_lines' = Deleted(initial_lines, final_lines)
    /\ appeared_iter' = changed_or_new_lines'
    /\ deleted_iter' = deleted_lines'
    /\ file_changes' = <<>>
    /\ pc' = "appeared"
    /\ UNCHANGED <<initial_status_output, final_status_output, fs, appeared_count>>

\* one iteration of `for line in changed_or_new_lines`, in any set order;
\* head and staged are the outcomes of the two diff calls, if made
AppearedStep ==
    /\ pc = "appeared"
    /\ \E line \in appeared_iter :
         \E head \in DiffOutcomes, staged \in DiffOutcomes :
            /\ file_changes' = file_changes \o AppearedRecords(line, head, staged)
            /\ appeared_iter' = appeared_iter \ {line}
    /\ UNCHANGED <<pc, initial_status_output, final_status_output, fs,
                   changed_or_new_lines, deleted_lines, deleted_iter, appeared_count>>

\* the appeared loop is exhausted; the deleted loop starts
AppearedEnd ==
    /\ pc = "appeared"
    /\ appeared_iter = {}
    /\ appeared_count' = Len(file_changes)
    /\ pc' = "deleted"
    /\ UNCHANGED <<initial_status_output, final_status_output, fs,
                   changed_or_new_lines, deleted_lines, appeared_iter, deleted_iter,
                   file_changes>>

\* one iteration of `for line in deleted_lines`, in any set order
DeletedStep ==
    /\ pc = "deleted"
    /\ \E line \in deleted_iter :
         /\ file_changes' = file_changes \o DeletedRecords(line, file_changes)
         /\ deleted_iter' = deleted_iter \ {line}
    /\ UNCHANGED <<pc, initial_status_output, final_status_output, fs,
                   changed_or_new_lines, deleted_lines, appeared_iter, appeared_count>>

\* the deleted loop is exhausted; the events are printed
Emit ==
    /\ pc = "deleted"
    /\ deleted_iter = {}
    /\ pc' = "done"
    /\ UNCHANGED <<initial_status_output, final_status_output, fs,
                   changed_or_new_lines, deleted_lines, appeared_iter, deleted_iter,
                   file_changes, appeared_count>>

Next == CoderRun \/ DiffStatus \/ AppearedStep \/ AppearedEnd \/ DeletedStep \/ Emit

Spec == Init /\ [][Next]_vars

TypeOK ==
    /\ pc \in {"coder", "status", "appeared", "deleted", "done"}
    /\ initial_status_output \in StatusOutputs
    /\ final_status_output \in StatusOutputs
    /\ fs \in [Paths -> FileStates]
    /\ appeared_iter \subseteq changed_or_new_lines
    /\ deleted_iter \subseteq deleted_lines
    /\ appeared_count <= Len(file_changes)

(* ---------------------------------------------------------------------- *)
(* Vocabulary of the properties                                            *)
(* ---------------------------------------------------------------------- *)

Untracked == <<"?", "?">>

\* the status letter the code is read by: the code without its blank column
Letter(e) == Strip(e.code)

DeletedCoded(e) == ~IsRename(e) /\ StartsWith(Letter(e), <<"D">>)

AddedCoded(e) == ~IsRename(e) /\ e.code = Untracked

ModifiedCoded(e) ==
    ~IsRename(e) /\ (StartsWith(Letter(e), <<"M">>) \/ StartsWith(Letter(e), <<"A">>))

\* entries of the two snapshots as the differ is specified over them
AppearedEntries == final_status_output \ initial_status_output
VanishedEntries == initial_status_output \ final_status_output

Indices == 1..Len(file_changes)

RecordsOf(p) == { i \in Indices : file_changes[i].filename = p }

NonDeleted(r) == r.change_type \in {"added", "modified"}

Listed(S, p) == \E e \in S : Target(e) = p

(* ---------------------------------------------------------------------- *)
(* C1                                                                      *)
(* ---------------------------------------------------------------------- *)

C2_Case(p) ==
    /\ \E e \in VanishedEntries : DeletedCoded(e) /\ Target(e) = p
    /\ \E e \in AppearedEntries : (AddedCoded(e) \/ ModifiedCoded(e)) /\ Target(e) = p

C3_Case(p) ==
    /\ \E e \in initial_status_output : ~IsRename(e) /\ Target(e) = p /\ e.code # Untracked
    /\ ~Listed(final_status_output, p)
    /\ ~Exists(p)
    /\ ~IsInChanged(SubSeq(file_changes, 1, appeared_count), p)

C4_Case(p) ==
    /\ \E e \in final_status_output : AddedCoded(e) /\ Target(e) = p
    /\ ~Listed(initial_status_output, p)

C5_RenameReportsNewPath ==
    pc = "done" =>
        \A e \in AppearedEntries : IsRename(e) =>
            \E i \in RecordsOf(Target(e)) : NonDeleted(file_changes[i])

(* ---------------------------------------------------------------------- *)
(* C6                                                                      *)
(* ---------------------------------------------------------------------- *)

C6_CodeChanged(eb, ea) ==
    /\ eb \in initial_status_output /\ ea \in final_status_output
    /\ eb.path = ea.path
    /\ eb.code # ea.code

\* C6: once the differ has run, an entry whose two-character code changed
\* between the snapshots has its old line among deleted_lines and its new
\* line among changed_or_new_lines, and the new line is iterated by the
\* appeared loop before the run ends.
C6_CodeChangeIsVanishedAndAppeared ==
    pc \in {"appeared", "deleted", "done"} =>
        \A eb \in initial_status_output, ea \in final_status_output :
            C6_CodeChanged(eb, ea) =>
                /\ Strip(StatusLine(eb)) \in deleted_lines
                /\ Strip(StatusLine(ea)) \in changed_or_new_lines
                /\ Strip(StatusLine(eb)) # Strip(StatusLine(ea))
                /\ (pc = "done" => Strip(StatusLine(ea)) \notin appeared_iter)

\* the codes differ only in the column that holds the letter
C6_Witness ==
    /\ pc = "done"
    /\ \E eb \in initial_status_output, ea \in final_status_output :
         /\ C6_CodeChanged(eb, ea)
         /\ eb.code = <<" ", "M">> /\ ea.code = <<"M", " ">>
         /\ \E i \in RecordsOf(Target(ea)) : file_changes[i].change_type = "modified"

(* ---------------------------------------------------------------------- *)
(* C7                                                                      *)
(* ---------------------------------------------------------------------- *)

\* C7 as stated: every added or modified record comes before every deleted
\* record.
C7_ChangedBeforeDeleted ==
    \A i, j \in Indices :
        (file_changes[i].change_type = "deleted" /\ NonDeleted(file_changes[j])) => j < i

\* C7 as amended: every added or modified record comes before every deleted
\* record that the deleted-lines loop built from a vanished entry; those
\* records are the ones after the first appeared_count records.
C7_ChangedBeforeVanishedDeleted ==
    pc \in {"deleted", "done"} =>
        \A j \in Indices :
            /\ (NonDeleted(file_changes[j]) => j <= appeared_count)
            /\ (j > appeared_count => file_changes[j].change_type = "deleted")

\* both loops contributed: an added or modified record and, after it, a
\* deleted record built from a vanished entry
C7_Witness ==
    /\ pc = "done"
    /\ appeared_count > 0
    /\ Len(file_changes) > appeared_count
    /\ \E j \in 1..appeared_count : NonDeleted(file_changes[j])

(* ---------------------------------------------------------------------- *)
(* C8                                                                      *)
(* ---------------------------------------------------------------------- *)

\* C8: when the snapshot after the run equals the snapshot before it, no
\* record is ever appended, whatever the files on disk.
C8_EqualSnapshotsNoChanges ==
    (pc # "coder" /\ initial_status_output = final_status_output) =>
        file_changes = <<>>

\* equal, non-empty snapshots with a listed file missing from disk
C8_Witness ==
    /\ pc = "done"
    /\ initial_status_output = final_status_output
    /\ \E e \in initial_status_output : e.code # Untracked /\ ~Exists(Target(e))

(* ---------------------------------------------------------------------- *)
(* C9                                                                      *)
(* ---------------------------------------------------------------------- *)

\* C9: an appeared modified-coded entry whose file exists and is readable is
\* reported by a modified record whose content is the file's text, whatever
\* the outcome of the diff calls.
C9_DiffFailureKeepsContent ==
    pc = "done" =>
        \A e \in AppearedEntries :
            (ModifiedCoded(e) /\ fs[Target(e)] = "readable") =>
                \E i \in RecordsOf(Target(e)) :
                    /\ file_changes[i].change_type = "modified"
                    /\ file_changes[i].content = FileText(Target(e))

(* ---------------------------------------------------------------------- *)
(* C10                                                                     *)
(* ---------------------------------------------------------------------- *)

\* C10: with at most one entry per path in each snapshot, no filename has
\* more than one record.
C10_OneRecordPerFilename ==
    \A i, j \in Indices :
        file_changes[i].filename = file_changes[j].filename => i = j
====
